---- MODULE Spec2Model ----
(***************************************************************************)
(* Model of the HS602 protocol client.  The repository keeps four          *)
(* revisions of the same client; `rev` selects the one a behaviour runs:    *)
(*   src/hs602/controller.py   (2019, Controller.cmd)                       *)
(*   src/hs602/Controller.py   (2018, Controller._cmd, cache and queue)     *)
(*   src/hs602.py              (2018, Controller._cmd with cmd_limit)       *)
(*   src/Python/HS602.py       (2017, HS602.send)                           *)
(* A behaviour is a sequence of accessor calls; each accessor issues        *)
(* commands, each command knocks, connects, writes its frame and reads the  *)
(* reply.  The device and the network are the environment.                  *)
(***************************************************************************)
EXTENDS Integers, Sequences, FiniteSets, TLC

controller_py == "hs602/controller.py"
Controller_py == "hs602/Controller.py"
hs602_py == "hs602.py"
HS602_py == "Python/HS602.py"
Revs == {controller_py, Controller_py, hs602_py, HS602_py}

(***************************************************************************)
(* Bounds of the exploration.                                              *)
(***************************************************************************)
\* longest "short" string value a caller sets while the network is lossy
MaxLen == 2
\* a TCP read may deliver the first SplitAt bytes of what is pending
SplitAt == 10
\* number of times hs602.py re-enters _cmd after a short reply
MaxResend == 1
\* configured cmd_limit of hs602.py (commands per socket before rollover)
CmdLimit == 3

\* unread bytes on a connection beyond which the device answers no more
MaxStale == 0
\* UDP replies one discovery collects before its timeout
MaxReplies == 2
\* changes of address or port a caller makes
MaxReconf == 1
\* the property assignments and the calls of commit() in a run
MaxAssign == 2
MaxCommit == 2

\* defaults of Controller.__init__ (hs602.py)
DefaultCmdLen == 15
DefaultCmdLimit == 250
DefaultTcp == 8087
DefaultUdp == 8086

\* configured command lengths (cmd_len); Controller.py fixes 15
CmdLens == {15, 16}
\* characters of the values set: a blank (32) and a letter (97)
Whitespace == {32}
Chars == {32, 97}
\* device addresses; 0 stands for no address (None, '<broadcast>')
Devices == {1, 2}
\* TCP command ports and UDP ports a caller configures
TcpPorts == {8087, 8088}
UdpPorts == {8086, 8089}
\* payloads of UDP replies: the pong, and the client's own ping heard back
Payloads == {"YES", "HS602"}

(***************************************************************************)
(* Helpers on byte sequences.                                              *)
(***************************************************************************)
Min(a, b) == IF a < b THEN a ELSE b

Zeros(n) == [i \in 1..n |-> 0]

Repeat(c, n) == [i \in 1..n |-> c]

IsPrefix(s, t) == Len(s) <= Len(t) /\ SubSeq(t, 1, Len(s)) = s

Drop(s, k) == SubSeq(s, k + 1, Len(s))

Count(s, e) == Cardinality({i \in 1..Len(s) : s[i].e = e})

\* data.ljust(pad, b'\0'): pads on the right, never truncates
pad(data, n) == IF Len(data) >= n THEN data ELSE data \o Zeros(n - Len(data))

\* first == second
echo(first, second) == first = second

RECURSIVE LStrip(_)
LStrip(s) == IF s # <<>> /\ Head(s) \in Whitespace THEN LStrip(Tail(s)) ELSE s

RECURSIVE RStrip(_)
RStrip(s) == IF s # <<>> /\ s[Len(s)] \in Whitespace
             THEN RStrip(SubSeq(s, 1, Len(s) - 1)) ELSE s

\* str.strip()
strip(s) == RStrip(LStrip(s))

(***************************************************************************)
(* Values and tables.                                                      *)
(***************************************************************************)
\* the short values a caller sets: letters only, blanks only, and a letter
\* after leading blanks
ShortValues ==
  {Repeat(c, n) : c \in Chars, n \in 1..MaxLen}
    \cup {Append(Repeat(32, n - 1), 97) : n \in 2..MaxLen}

\* the longest value the validators accept, and a device string beyond it
LongValue == Repeat(97, 255)
DevLong == Repeat(97, 256)

\* options = {'url': 16, 'key': 17, 'username': 20, 'password': 21, 'name': 23}
RtmpOptions(r) ==
  IF r = controller_py
  THEN [url |-> 16, key |-> 17, username |-> 20, password |-> 21, name |-> 23]
  ELSE [url |-> 16, key |-> 17, username |-> 20, password |-> 21]

\* the option the behaviours exercise
OptsUsed == {"url"}

NoCall == [op |-> "none", opt |-> "", val |-> <<>>]
\* a queue item (key, value); None, False and 0 are the value 0
NoItem == [k |-> "none", v |-> 0]
\* no cached property was used yet
NoAsk == [op |-> "none", k |-> "", v |-> <<>>]
\* a result: returned (tag "str"/"int" with the value, or "True", "False",
\* "None", a label) or raised (tag names the error)
NoResult == [kind |-> "none", tag |-> "", val |-> <<>>]
RetVal(t, v) == [kind |-> "return", tag |-> t, val |-> v]
Ret(t) == [kind |-> "return", tag |-> t, val |-> <<>>]
Raise(e) == [kind |-> "raise", tag |-> e, val |-> <<>>]

VARIABLES
  rev,        \* the revision of the client
  cmd_len,    \* self.cmd_len
  cmd_limit,  \* self._cmd_limit (hs602.py)
  net,        \* "ideal": reliable transport and echoing device; "lossy"
  sock,       \* self.socket: "None", "open", or "dead" (object kept, unusable)
  old_sock,   \* self.__old_socket (hs602.py)
  cmd_count,  \* self.__cmd_count (hs602.py), None is 0
  call,       \* the accessor call in progress
  apc,        \* position in the accessor
  pos,        \* loop index of the string transfer
  buf,        \* characters read so far
  result,     \* what the accessor returned or raised
  nset,       \* set frames submitted by this call
  nack,       \* set frames of this call whose exact echo arrived
  mismatch,   \* a set frame of this call got a reply that differs from it
  cpc,        \* position in cmd/_cmd/send
  msg,        \* the frame of the command
  data,       \* reply bytes gathered
  errs,       \* socket errors of this command (retry / error_count)
  resends,    \* re-entries of hs602.py after a short reply
  exc,        \* exception leaving the command
  ev,         \* events of this command: knock, connect, write, ioerr, close
  rx,         \* bytes the device sent that the client has not read
  eof,        \* the device closed the connection
  devStr,     \* string the device holds for the option
  devBuf,     \* characters the device received since index 0
  lastSet,    \* value of the last string set that reported success
  addr,       \* self.addr: a device address, 0 when none is set
  tcp,        \* self.tcp
  udp,        \* self.udp
  nconf,      \* changes of address or port made so far
  peer,       \* <<address, port>> the command socket was connected to
  udp_socket, \* the UDP socket udp_msg opened last: "None", "open", "closed"
  replies,    \* UDP replies the last discovery collected
  devStreaming, \* the device is streaming
  devBitrate, \* the average bitrate the device holds
  before,     \* streaming state the last get returned ("none" before any)
  ntog,       \* toggles that reported success since that get (2: two or more)
  chk,        \* outcome of the last get that followed exactly one toggle
  queue,      \* self.__queue (Controller.py): the (key, value) items queued
  cache,      \* self.__cache (Controller.py), for the properties modelled
  cmpc,       \* position in commit(): "off", "take", "call", "cacheB", "cacheT",
              \* "returned", "raised"
  cur,        \* the queue item commit() is working on
  assigned,   \* the property assignments made so far, in order
  handed,     \* the items commit() passed to their accessor as method(value)
  fresh,      \* a full read of _cache_() ended after the last method(value)
  ncommit,    \* calls of commit() so far
  asked,      \* the caller's last use of a cached property: the assignment
              \* made or the value read
  blocking,   \* the blocking argument of the last commit()
  unanswered, \* frames written on the current connection whose reply has not
              \* been read to its end
  carried     \* frames written on the current connection of hs602.py

vars == <<rev, cmd_len, cmd_limit, net, sock, old_sock, cmd_count, call, apc,
          pos, buf, result, nset, nack, mismatch, cpc, msg, data, errs,
          resends, exc, ev, rx, eof, unanswered, carried, devStr, devBuf, lastSet, addr,
          tcp, udp,
          nconf, peer, udp_socket, replies, devStreaming, devBitrate,
          before, ntog, chk, queue, cache,
          cmpc, cur, assigned, handed, fresh, ncommit, asked, blocking>>

togVars == <<before, ntog, chk>>
baseVars == <<rev, cmd_len, cmd_limit, net, addr, tcp, udp, nconf>>
setupVars == <<baseVars, togVars>>
cmVars == <<cache, cmpc, cur, assigned, handed, fresh, ncommit, asked, blocking>>
cfgVarsQ == <<setupVars, peer, udp_socket, replies, cmVars>>
cfgVars == <<cfgVarsQ, queue>>
accVars == <<call, apc, pos, buf, result, nset, nack, mismatch, lastSet>>
devVars == <<devStr, devBuf, devStreaming, devBitrate>>

\* the state after construction, for the revisions, addresses and device
\* strings a specification explores
Start(revs, addrs, strs) ==
  /\ rev \in revs
  /\ net \in {"ideal", "lossy"}
  /\ cmd_len \in (IF rev = Controller_py \/ net = "lossy" THEN {15} ELSE CmdLens)
  /\ cmd_limit = CmdLimit
  /\ sock = "None"
  /\ old_sock = "None"
  /\ cmd_count = 0
  /\ call = NoCall
  /\ apc = "idle"
  /\ pos = 0
  /\ buf = <<>>
  /\ result = NoResult
  /\ nset = 0
  /\ nack = 0
  /\ mismatch = FALSE
  /\ cpc = "idle"
  /\ msg = <<>>
  /\ data = <<>>
  /\ errs = 0
  /\ resends = 0
  /\ exc = "none"
  /\ ev = <<>>
  /\ rx = <<>>
  /\ unanswered = 0
  /\ carried = 0
  /\ eof = FALSE
  /\ devStr \in (IF net = "ideal" THEN strs ELSE {<<>>})
  /\ devBuf = <<>>
  /\ lastSet = <<>>
  /\ addr \in (addrs \ {0})
               \cup (IF rev \in {controller_py, hs602_py} /\ cmd_len = DefaultCmdLen
                     THEN addrs \cap {0} ELSE {})
  /\ tcp = DefaultTcp
  /\ udp = DefaultUdp
  /\ nconf = 0
  /\ peer = <<>>
  /\ udp_socket = "None"
  /\ replies = <<>>
  /\ devStreaming = FALSE
  /\ devBitrate = 0
  /\ before = "none"
  /\ ntog = 0
  /\ chk = "none"
  /\ queue = <<>>
  /\ cache = [bitrate |-> 0, toggle |-> 0]
  /\ cmpc = "off"
  /\ cur = NoItem
  /\ assigned = <<>>
  /\ handed = <<>>
  /\ fresh = TRUE
  /\ ncommit = 0
  /\ asked = NoAsk
  /\ blocking = FALSE

\* every revision, with the address of the device given to the constructor
Init == Start(Revs, {1}, {<<>>, DevLong})

\* the revisions with a discovery call, with or without an address
InitDisc == Start({controller_py, Controller_py, hs602_py}, {0, 1}, {<<>>})

\* events of a command; a knock carries <<address, udp port>>, a connect and
\* a write the <<address, tcp port>> of the connection
Ev(e) == [e |-> e, f |-> <<>>, a |-> <<>>]
\* the four numbers of the dotted form gethostbyname returns for a device
Octets(a) == IF a = 1 THEN <<192, 168, 1, 10>> ELSE <<10, 0, 2, 254>>

\* a knock that keeps the order of the octets
Reversed_Same(s) == s

\* reversed(addr.split('.'))
Reversed(s) == [i \in 1..Len(s) |-> s[Len(s) + 1 - i]]

\* [67] + [int(octal) for octal in ip]
Knock(a) == <<67>> \o Reversed(Octets(a))

EvK == [e |-> "knock", f |-> Knock(addr), a |-> <<addr, udp>>]
EvC == [e |-> "connect", f |-> <<>>, a |-> <<addr, tcp>>]
EvW(f) == [e |-> "write", f |-> f, a |-> peer]

(***************************************************************************)
(* The simulated device: it echoes a set frame, answers a get frame with   *)
(* one value byte, and stores the characters of a string transfer up to    *)
(* the length the terminator declares.                                     *)
(***************************************************************************)
RtmpOpcodes == {16, 17, 20, 21, 23}

IsGet(m) == Len(m) >= 2 /\ m[2] = 1

IsRtmpGet(m) == Len(m) >= 3 /\ m[1] \in RtmpOpcodes /\ m[2] = 1

IsRtmpSet(m) == Len(m) >= 4 /\ m[1] \in RtmpOpcodes /\ m[2] = 0

\* value bytes a get of a scalar property may answer
GetBytes == {0, 2, 3}

\* value bytes of a streaming device, resolution codes and stream-mode codes
\* the device may answer
StreamingBytes == {1, 255}
ResolutionBytes == {0, 42, 43}
ModeBytes == {0, 2, 4, 5}

\* the picture sizes <<width, height>> the device may report; the reply
\* carries the height in bytes 0..3 and the width in bytes 4..7
DevPictures == <<<<0, 0>>, <<1280, 720>>, <<1920, 1080>>>>

LE32(n) ==
  <<n % 256, (n \div 256) % 256, (n \div 65536) % 256, (n \div 16777216) % 256>>

DevGetValues(m) ==
  IF IsRtmpGet(m)
  THEN {IF m[3] < Len(devStr) THEN devStr[m[3] + 1] ELSE 0}
  ELSE IF ~IsGet(m) THEN {0}
  ELSE CASE m[1] = 15 -> IF devStreaming THEN StreamingBytes ELSE {0}
         [] m[1] = 2 -> {devBitrate}
         [] m[1] = 4 -> ResolutionBytes
         [] m[1] = 8 -> ModeBytes
         [] m[1] = 3 -> DOMAIN DevPictures
         [] OTHER -> GetBytes

DevReply(m, v) ==
  IF ~IsGet(m) THEN pad(m, cmd_len)
  ELSE IF m[1] = 3
  THEN pad(LE32(DevPictures[v][2]) \o LE32(DevPictures[v][1]), cmd_len)
  ELSE IF m[1] = 2
  THEN pad(LE32(v), cmd_len)
  ELSE pad(<<v>>, cmd_len)

DevStore(b, i, c) ==
  IF i = 0 THEN <<c>>
  ELSE IF i = Len(b) THEN Append(b, c)
  ELSE IF i < Len(b) THEN [b EXCEPT ![i + 1] = c]
  ELSE b

DevApply(m) ==
  IF IsRtmpSet(m)
  THEN IF m[4] # 0
       THEN /\ devBuf' = DevStore(devBuf, m[3], m[4])
            /\ UNCHANGED <<devStr, devStreaming, devBitrate>>
       ELSE /\ devStr' = SubSeq(devBuf, 1, Min(m[3], Len(devBuf)))
            /\ devBuf' = <<>>
            /\ UNCHANGED <<devStreaming, devBitrate>>
  ELSE IF Len(m) >= 2 /\ m[1] = 15 /\ m[2] = 0
  THEN /\ devStreaming' = ~devStreaming
       /\ UNCHANGED <<devStr, devBuf, devBitrate>>
  ELSE IF Len(m) >= 6 /\ m[1] = 2 /\ m[2] = 0
  THEN /\ devBitrate' = m[3] + 256 * m[4] + 65536 * m[5] + 16777216 * m[6]
       /\ UNCHANGED <<devStr, devBuf, devStreaming>>
  ELSE UNCHANGED devVars

Garble(r, g) == [r EXCEPT ![g] = (r[g] + 1) % 256]

\* the byte the device alters: the opcode, the last value byte of a
\* character frame, the last padding byte
GarbleAt == {1, 4, cmd_len}

\* the device answers while the connection is up and little is unread
Answers == sock = "open" /\ ~eof /\ Len(rx) <= MaxStale

(***************************************************************************)
(* The command: Controller.cmd (controller.py), Controller._cmd            *)
(* (Controller.py, hs602.py) and HS602.send with HS602.connect.            *)
(***************************************************************************)
\* hs602.py runs the discovery inside _cmd when no address is set
DiscoversInCmd(r) == r = hs602_py

\* the UDP replies a discovery may collect before its timeout
ReplyLists ==
  UNION {[1..n -> [a : Devices, p : Payloads]] : n \in 0..MaxReplies}

\* rep[2] == pong
IsPong(r) == r.p = "YES"

\* [rep[0] for rep in res if rep[2] == pong]
PongAddrs(reps) ==
  LET sel == SelectSeq(reps, IsPong) IN [i \in 1..Len(sel) |-> sel[i].a]

\* what discover() / _devices_get() returns for the replies collected
DevicesGet(r, reps) ==
  IF r = hs602_py /\ reps = <<>>
  THEN Ret("None")
  ELSE RetVal("list", PongAddrs(reps))

\* a discovery that takes the last address found
FirstDevice_Last(found) == found[Len(found)]

\* self._devices_get()[0]
FirstDevice(found) == found[1]

\* "if not self.socket or new" / "if not self.__socket or retry"
NeedNew(r, s, e) ==
  IF r = Controller_py THEN s = "None" \/ e >= 1 ELSE s = "None"

\* a retry that is allowed once more than the code allows
RetryAgain_Twice(r, e) ==
  CASE r = Controller_py -> e < 2
    [] r = hs602_py -> e < 2
    [] OTHER -> FALSE

\* after a socket error in send/recv: is the command attempted again?
RetryAgain(r, e) ==
  CASE r = Controller_py -> e < 1
    [] r = hs602_py -> e < 2
    [] OTHER -> FALSE

\* is the socket shut down in the error handler?
ClosesOnError(r, retry) ==
  CASE r = controller_py -> TRUE
    [] r = Controller_py -> retry
    [] r = hs602_py -> retry
    [] OTHER -> FALSE

\* what the socket attribute holds after the close routine of the revision
Closed(r, s) ==
  IF r = hs602_py THEN "None"
  ELSE IF s = "None" THEN "None" ELSE "dead"

\* bufsize of socket.recv
RecvSize(r) == IF r \in {controller_py, Controller_py} THEN 1024 ELSE cmd_len

\* one read per command (HS602.send) or a loop until cmd_len bytes arrived
ReadsOnce(r) == r = HS602_py

\* the state of the UDP socket when udp_msg has returned or raised: the
\* with block closes it, udp_msg of controller.py returns before its
\* socket_shutdown when no reply is wanted
UdpAfter(r, reply) ==
  IF r = controller_py /\ ~reply THEN "open" ELSE "closed"

Issue(frame) ==
  /\ msg' = frame
  /\ cpc' = "enter"
  /\ data' = <<>>
  /\ errs' = 0
  /\ resends' = 0
  /\ exc' = "none"
  /\ ev' = <<>>

CmdEnter ==
  /\ cpc = "enter"
  /\ IF rev = hs602_py /\ cmd_count + 1 >= cmd_limit
     THEN /\ old_sock' = sock
          /\ sock' = "None"
          /\ cmd_count' = 0
          /\ carried' = 0
          /\ errs' = 0
          /\ cpc' = "enter"
     ELSE /\ cmd_count' = IF rev = hs602_py THEN cmd_count + 1 ELSE cmd_count
          /\ cpc' = IF addr = 0
                    THEN (IF DiscoversInCmd(rev) THEN "discover" ELSE "exc")
                    ELSE IF NeedNew(rev, sock, errs) THEN "knock" ELSE "send"
          /\ UNCHANGED <<old_sock, sock, errs, carried>>
  /\ exc' = IF cpc' = "exc" THEN "addr" ELSE exc
  /\ UNCHANGED <<cfgVars, accVars, devVars, msg, data, resends, ev, rx, eof,
                 unanswered>>

\* self.__init__() of hs602.py, called by _devices_get: every setting but
\* the address goes back to its default and the socket references are dropped
InitAgain ==
  /\ tcp' = DefaultTcp
  /\ udp' = DefaultUdp
  /\ cmd_len' = DefaultCmdLen
  /\ cmd_limit' = DefaultCmdLimit
  /\ sock' = "None"
  /\ old_sock' = "None"
  /\ cmd_count' = 0
  /\ carried' = 0

\* "if not addr or addr.lower() == self.__addr_broadcast.lower():
\*      self._addr_set(self._devices_get()[0])"
DiscoverInCmd ==
  /\ cpc = "discover"
  /\ \E reps \in ReplyLists :
       LET found == DevicesGet(rev, reps)
       IN /\ replies' = reps
          /\ IF found.tag = "list" /\ found.val # <<>>
             THEN /\ addr' = FirstDevice(found.val)
                  /\ cpc' = "knock"
                  /\ exc' = exc
             ELSE /\ addr' = 0
                  /\ cpc' = "exc"
                  /\ exc' = "discover"
  /\ InitAgain
  /\ ev' = Append(ev, Ev("discover"))
  /\ udp_socket' = UdpAfter(rev, TRUE)
  /\ UNCHANGED <<rev, net, togVars, cmVars, queue, nconf, peer, accVars,
                 devVars, msg, data, errs,
                 resends, rx, eof, unanswered>>

KnockOk ==
  /\ cpc = "knock"
  /\ ev' = Append(ev, EvK)
  /\ cpc' = "connect"
  /\ udp_socket' = UdpAfter(rev, FALSE)
  /\ UNCHANGED <<setupVars, peer, replies, cmVars, queue, accVars, devVars, sock, old_sock, cmd_count, msg,
                 data, errs, resends, exc, rx, eof, unanswered, carried>>

\* the socket could not be made (no new socket) or sendto raised
KnockFail ==
  /\ cpc = "knock"
  /\ net = "lossy"
  /\ cpc' = "exc"
  /\ exc' = "knock"
  /\ udp_socket' \in {udp_socket, UdpAfter(rev, FALSE)}
  /\ UNCHANGED <<setupVars, peer, replies, cmVars, queue, accVars, devVars, sock, old_sock, cmd_count, msg,
                 data, errs, resends, ev, rx, eof, unanswered, carried>>

ConnectOk ==
  /\ cpc = "connect"
  /\ sock' = "open"
  /\ rx' = <<>>
  /\ unanswered' = 0
  /\ carried' = 0
  /\ eof' = FALSE
  /\ ev' = Append(ev, EvC)
  /\ peer' = <<addr, tcp>>
  /\ cpc' = "send"
  /\ UNCHANGED <<setupVars, udp_socket, replies, cmVars, queue, accVars,
                 devVars, old_sock, cmd_count, msg, data, errs, resends, exc>>

ConnectFail ==
  /\ cpc = "connect"
  /\ net = "lossy"
  /\ sock' = IF rev = hs602_py THEN "dead" ELSE sock
  /\ peer' = IF rev = hs602_py THEN <<addr, tcp>> ELSE peer
  /\ cpc' = "exc"
  /\ exc' = "connect"
  /\ UNCHANGED <<setupVars, udp_socket, replies, cmVars, queue, accVars,
                 devVars, old_sock, cmd_count, msg, data, errs, resends, ev, rx,
                 eof, unanswered, carried>>

\* _close() of Controller.py ends in self.__queue = queue.Queue()
ResetsQueue(r) == r = Controller_py

\* the except clause around sendall/recv; e0 is the event log so far
IoError(e0) ==
  LET retry == RetryAgain(rev, errs)
      closes == ClosesOnError(rev, retry)
  IN /\ ev' = e0 \o <<Ev("ioerr")>> \o (IF closes THEN <<Ev("close")>> ELSE <<>>)
     /\ sock' = IF closes THEN Closed(rev, sock) ELSE sock
     /\ rx' = IF closes THEN <<>> ELSE rx
     /\ unanswered' = IF closes THEN 0 ELSE unanswered
     /\ carried' = IF closes THEN 0 ELSE carried
     /\ eof' = IF closes THEN FALSE ELSE eof
     /\ cmd_count' = IF closes /\ rev = hs602_py THEN 0 ELSE cmd_count
     /\ errs' = IF retry THEN errs + 1 ELSE errs
     /\ cpc' = IF retry THEN "enter" ELSE "exc"
     /\ exc' = IF retry THEN exc ELSE "io"
     /\ queue' = IF closes /\ ResetsQueue(rev) THEN <<>> ELSE queue

\* sendall has put a frame on the connection
Written ==
  /\ unanswered' = Min(unanswered + 1, 2)
  /\ carried' = IF rev = hs602_py THEN Min(carried + 1, CmdLimit + 1)
                ELSE carried

SendFaithful ==
  /\ cpc = "send"
  /\ Answers
  /\ \E v \in DevGetValues(msg) : rx' = rx \o DevReply(msg, v)
  /\ DevApply(msg)
  /\ Written
  /\ ev' = Append(ev, EvW(msg))
  /\ data' = <<>>
  /\ cpc' = "recv"
  /\ UNCHANGED <<cfgVars, accVars, sock, old_sock, cmd_count, msg, errs,
                 resends, exc, eof>>

SendGarbled ==
  /\ cpc = "send"
  /\ Answers
  /\ net = "lossy"
  /\ ~IsGet(msg)
  /\ \E g \in GarbleAt : rx' = rx \o Garble(DevReply(msg, 0), g)
  /\ Written
  /\ ev' = Append(ev, EvW(msg))
  /\ data' = <<>>
  /\ cpc' = "recv"
  /\ UNCHANGED <<cfgVars, accVars, devVars, sock, old_sock, cmd_count, msg,
                 errs, resends, exc, eof>>

SendCut ==
  /\ cpc = "send"
  /\ Answers
  /\ net = "lossy"
  /\ \E v \in DevGetValues(msg), k \in {0, SplitAt} :
        rx' = rx \o SubSeq(DevReply(msg, v), 1, k)
  /\ eof' = TRUE
  /\ DevApply(msg)
  /\ Written
  /\ ev' = Append(ev, EvW(msg))
  /\ data' = <<>>
  /\ cpc' = "recv"
  /\ UNCHANGED <<cfgVars, accVars, sock, old_sock, cmd_count, msg, errs,
                 resends, exc>>

SendSilent ==
  /\ cpc = "send"
  /\ sock = "open"
  /\ net = "lossy"
  /\ Written
  /\ ev' = Append(ev, EvW(msg))
  /\ data' = <<>>
  /\ cpc' = "recv"
  /\ UNCHANGED <<cfgVars, accVars, devVars, sock, old_sock, cmd_count, msg,
                 errs, resends, exc, rx, eof>>

SendFail ==
  /\ cpc = "send"
  /\ \/ sock = "dead"
     \/ sock = "open" /\ net = "lossy"
  /\ IoError(Append(ev, EvW(msg)))
  /\ UNCHANGED <<cfgVarsQ, accVars, devVars, old_sock, msg, data, resends>>

RecvChunk ==
  /\ cpc = "recv"
  /\ rx # <<>>
  /\ LET avail == Min(Len(rx), RecvSize(rev))
     IN \E k \in {avail} \cup (IF net = "lossy" /\ SplitAt < avail
                               THEN {SplitAt} ELSE {}) :
          LET d == data \o SubSeq(rx, 1, k)
              done == ReadsOnce(rev) \/ Len(d) >= cmd_len
          IN /\ data' = d
             /\ rx' = Drop(rx, k)
             /\ unanswered' = IF k = Len(rx) /\ ~eof THEN 0 ELSE unanswered
             /\ carried' = carried
             /\ cpc' = IF done THEN "ret" ELSE "recv"
             /\ old_sock' = IF done /\ rev = hs602_py THEN "None" ELSE old_sock
  /\ UNCHANGED <<cfgVars, accVars, devVars, sock, cmd_count, msg, errs,
                 resends, exc, ev, eof>>

\* recv returned b'': the peer closed
RecvZero ==
  /\ cpc = "recv"
  /\ rx = <<>>
  /\ eof
  /\ CASE rev = controller_py ->
            /\ IoError(ev)
            /\ UNCHANGED <<old_sock, data, resends>>
       [] rev = Controller_py ->
            /\ sock' = Closed(rev, sock)
            /\ ev' = Append(ev, Ev("close"))
            /\ eof' = FALSE
            /\ cpc' = "ret"
            /\ queue' = <<>>
            /\ unanswered' = 0
            /\ carried' = 0
            /\ UNCHANGED <<old_sock, cmd_count, data, errs, resends, exc, rx>>
       [] rev = hs602_py ->
            /\ resends < MaxResend
            /\ sock' = Closed(rev, sock)
            /\ cmd_count' = 0
            /\ ev' = Append(ev, Ev("close"))
            /\ eof' = FALSE
            /\ errs' = 0
            /\ resends' = resends + 1
            /\ cpc' = "enter"
            /\ unanswered' = 0
            /\ carried' = 0
            /\ UNCHANGED <<old_sock, data, exc, rx, queue>>
       [] OTHER ->
            /\ cpc' = "ret"
            /\ UNCHANGED <<sock, old_sock, cmd_count, data, errs, resends,
                           exc, ev, rx, eof, unanswered, carried, queue>>
  /\ UNCHANGED <<cfgVarsQ, accVars, devVars, msg>>

\* nothing arrives before the socket timeout
RecvTimeout ==
  /\ cpc = "recv"
  /\ rx = <<>>
  /\ ~eof
  /\ IoError(ev)
  /\ UNCHANGED <<cfgVarsQ, accVars, devVars, old_sock, msg, data, resends>>

(***************************************************************************)
(* The string accessors: Controller.rtmp (controller.py), Controller._rtmp_*)
(* (Controller.py), Controller._rtmp_get/_rtmp_set (hs602.py) and          *)
(* HS602.stream.                                                           *)
(***************************************************************************)
\* is the frame handed to pad() before it is sent?
PadsGet(r) == r = hs602_py

PadsSet(r) == r # HS602_py

GetFrame(r, op, i) ==
  IF PadsGet(r) THEN pad(<<op, 1, i>>, cmd_len) ELSE <<op, 1, i>>

\* a character frame with index and character swapped
CharFrame_Swapped(r, op, i, c) ==
  IF PadsSet(r) THEN pad(<<op, 0, c, i>>, cmd_len) ELSE <<op, 0, c, i>>

CharFrame(r, op, i, c) ==
  IF PadsSet(r) THEN pad(<<op, 0, i, c>>, cmd_len) ELSE <<op, 0, i, c>>

TermFrame(r, op, n) ==
  IF PadsSet(r) THEN pad(<<op, 0, n, 0>>, cmd_len) ELSE <<op, 0, n, 0>>

\* the acknowledgment test of a set: echo(cmd, reply) or r[:len(cmd)] == cmd
EchoOk(r, frame, reply) ==
  IF r = HS602_py THEN IsPrefix(frame, reply) ELSE echo(frame, reply)

\* Controller.str / _valid_str / "if len(value) > 255"
ValidStr(r, v) ==
  CASE r \in {controller_py, Controller_py} -> Len(strip(v)) \in 1..255
    [] r = hs602_py -> Len(v) \in 1..255
    [] OTHER -> Len(v) <= 255

\* a get loop that runs one position further
RtmpGetCeiling_OneMore(r) == IF r \in {controller_py, Controller_py} THEN 256 ELSE 255

\* number of positions the get loop may request
RtmpGetCeiling(r) == IF r \in {controller_py, Controller_py} THEN 255 ELSE 254

\* what a character frame without its echo makes of the set
OnCharMismatch(r) == IF r = hs602_py THEN Ret("None") ELSE Raise("rejected")

\* what a terminator frame without its echo makes of the set
OnTermMismatch(r) ==
  IF r \in {Controller_py, hs602_py} THEN Ret("False") ELSE Raise("rejected")

OnSetDone(r, v) == IF r = controller_py THEN RetVal("str", v) ELSE Ret("True")

\* the get loop runs before the set in Controller.rtmp
GetsBeforeSet(r) == r = controller_py

keepVars == <<cfgVars, devVars, sock, old_sock, cmd_count, rx, eof, unanswered, carried>>

Finish(res) ==
  /\ result' = res
  /\ apc' = "done"
  /\ cpc' = "idle"
  /\ UNCHANGED <<msg, data, errs, resends, exc, ev>>

Idle == apc = "idle" /\ cpc = "idle"

SetValues == ShortValues \cup (IF net = "ideal" THEN {LongValue} ELSE {})

Opcode(opt) == RtmpOptions(rev)[opt]

CallRtmpGet ==
  /\ Idle
  /\ \E opt \in OptsUsed :
       /\ call' = [op |-> "rtmp_get", opt |-> opt, val |-> <<>>]
       /\ Issue(GetFrame(rev, RtmpOptions(rev)[opt], 0))
  /\ apc' = "get"
  /\ pos' = 0
  /\ buf' = <<>>
  /\ result' = NoResult
  /\ nset' = 0
  /\ nack' = 0
  /\ mismatch' = FALSE
  /\ UNCHANGED <<keepVars, lastSet>>

\* the first character frame of a set, or the value error of the validator
BeginSet(v, op) ==
  IF ValidStr(rev, v)
  THEN /\ Issue(CharFrame(rev, op, 0, v[1]))
       /\ apc' = "setchar"
       /\ nset' = 1
       /\ result' = NoResult
  ELSE /\ Finish(Raise("ValueError"))
       /\ nset' = 0

CallRtmpSet ==
  /\ Idle
  /\ \E opt \in OptsUsed, v \in SetValues :
       /\ call' = [op |-> "rtmp_set", opt |-> opt, val |-> v]
       /\ IF GetsBeforeSet(rev)
          THEN /\ Issue(GetFrame(rev, RtmpOptions(rev)[opt], 0))
               /\ apc' = "get"
               /\ nset' = 0
               /\ result' = NoResult
          ELSE BeginSet(v, RtmpOptions(rev)[opt])
  /\ pos' = 0
  /\ buf' = <<>>
  /\ nack' = 0
  /\ mismatch' = FALSE
  /\ lastSet' = <<>>
  /\ UNCHANGED keepVars

RtmpGetReply ==
  /\ apc = "get"
  /\ cpc = "ret"
  /\ IF data = <<>>
     THEN /\ Finish(Raise("IndexError"))
          /\ UNCHANGED <<pos, buf, nset>>
     ELSE LET dec == data[1]
              more == dec # 0 /\ pos + 1 < RtmpGetCeiling(rev)
              b == IF dec # 0 THEN Append(buf, dec) ELSE buf
          IN /\ buf' = b
             /\ IF more
                THEN /\ pos' = pos + 1
                     /\ Issue(GetFrame(rev, Opcode(call.opt), pos + 1))
                     /\ UNCHANGED <<apc, result, nset>>
                ELSE IF call.op = "rtmp_get"
                     THEN /\ Finish(RetVal("str", b))
                          /\ UNCHANGED <<pos, nset>>
                     ELSE /\ BeginSet(call.val, Opcode(call.opt))
                          /\ pos' = 0
  /\ UNCHANGED <<keepVars, call, nack, mismatch, lastSet>>

RtmpSetCharReply ==
  /\ apc = "setchar"
  /\ cpc = "ret"
  /\ IF EchoOk(rev, msg, data)
     THEN /\ nack' = nack + 1
          /\ nset' = nset + 1
          /\ pos' = pos + 1
          /\ IF pos + 1 < Len(call.val)
             THEN /\ Issue(CharFrame(rev, Opcode(call.opt), pos + 1,
                                     call.val[pos + 2]))
                  /\ UNCHANGED apc
             ELSE /\ Issue(TermFrame(rev, Opcode(call.opt), Len(call.val)))
                  /\ apc' = "setterm"
          /\ UNCHANGED <<result, mismatch>>
     ELSE /\ mismatch' = TRUE
          /\ Finish(OnCharMismatch(rev))
          /\ UNCHANGED <<nack, nset, pos>>
  /\ UNCHANGED <<keepVars, call, buf, lastSet>>

RtmpSetTermReply ==
  /\ apc = "setterm"
  /\ cpc = "ret"
  /\ IF EchoOk(rev, msg, data)
     THEN /\ nack' = nack + 1
          /\ Finish(OnSetDone(rev, call.val))
          /\ lastSet' = call.val
          /\ UNCHANGED mismatch
     ELSE /\ mismatch' = TRUE
          /\ Finish(OnTermMismatch(rev))
          /\ UNCHANGED <<nack, lastSet>>
  /\ UNCHANGED <<keepVars, call, pos, buf, nset>>

(***************************************************************************)
(* Controller.source, Controller.colour and Controller.led (controller.py).*)
(***************************************************************************)
SourceLabel(b) == IF b = 3 THEN "hdmi" ELSE "analogue"

CallSource ==
  /\ Idle
  /\ rev = controller_py
  /\ \E hdmi \in {"None", "True", "False"} :
       call' = [op |-> "source", opt |-> hdmi, val |-> <<>>]
  /\ Issue(pad(<<1, 1>>, cmd_len))
  /\ apc' = "src_get"
  /\ pos' = 0
  /\ buf' = <<>>
  /\ result' = NoResult
  /\ nset' = 0
  /\ nack' = 0
  /\ mismatch' = FALSE
  /\ UNCHANGED <<keepVars, lastSet>>

SourceGetReply ==
  /\ apc \in {"src_get", "src_reget"}
  /\ cpc = "ret"
  /\ LET ret == data[1]
     IN IF ret \notin {2, 3}
        THEN /\ Finish(Raise("protocol"))
             /\ UNCHANGED nset
        ELSE IF apc = "src_get" /\ call.opt # "None"
        THEN /\ Issue(pad(<<1, 0, IF call.opt = "True" THEN 3 ELSE 2>>, cmd_len))
             /\ apc' = "src_set"
             /\ nset' = nset + 1
             /\ UNCHANGED result
        ELSE /\ Finish(Ret(SourceLabel(ret)))
             /\ UNCHANGED nset
  /\ UNCHANGED <<keepVars, call, pos, buf, nack, mismatch, lastSet>>

\* self.cmd(cmd); return self.source()
SourceSetReply ==
  /\ apc = "src_set"
  /\ cpc = "ret"
  /\ nack' = IF echo(msg, data) THEN nack + 1 ELSE nack
  /\ mismatch' = (mismatch \/ ~echo(msg, data))
  /\ Issue(pad(<<1, 1>>, cmd_len))
  /\ apc' = "src_reget"
  /\ UNCHANGED <<keepVars, call, pos, buf, result, nset, lastSet>>

ColourOptions == [brightness |-> 0, contrast |-> 1, hue |-> 2, saturation |-> 3]

\* Controller.int
ValidInt(v) == v \in 0..255

CallColour ==
  /\ Idle
  /\ rev = controller_py
  /\ \E opt \in {"brightness"}, v \in {<<>>, <<0>>, <<128>>, <<256>>} :
       /\ call' = [op |-> "colour", opt |-> opt, val |-> v]
       /\ Issue(<<10, 1, ColourOptions[opt]>>)
  /\ apc' = "col_get"
  /\ pos' = 0
  /\ buf' = <<>>
  /\ result' = NoResult
  /\ nset' = 0
  /\ nack' = 0
  /\ mismatch' = FALSE
  /\ UNCHANGED <<keepVars, lastSet>>

ColourGetReply ==
  /\ apc = "col_get"
  /\ cpc = "ret"
  /\ IF call.val = <<>>
     THEN /\ Finish(RetVal("int", <<data[1]>>))
          /\ UNCHANGED nset
     ELSE IF ~ValidInt(call.val[1])
     THEN /\ Finish(Raise("ValueError"))
          /\ UNCHANGED nset
     ELSE /\ Issue(pad(<<10, 0, ColourOptions[call.opt], call.val[1]>>, cmd_len))
          /\ apc' = "col_set"
          /\ nset' = nset + 1
          /\ UNCHANGED result
  /\ UNCHANGED <<keepVars, call, pos, buf, nack, mismatch, lastSet>>

ColourSetReply ==
  /\ apc = "col_set"
  /\ cpc = "ret"
  /\ IF echo(msg, data)
     THEN /\ nack' = nack + 1
          /\ Finish(RetVal("int", call.val))
          /\ UNCHANGED mismatch
     ELSE /\ mismatch' = TRUE
          /\ Finish(Raise("rejected"))
          /\ UNCHANGED nack
  /\ UNCHANGED <<keepVars, call, pos, buf, nset, lastSet>>

\* the led accessor entered
StartLed ==
  /\ call' = [op |-> "led", opt |-> "", val |-> <<>>]
  /\ Issue(pad(<<55, 0, 1>>, cmd_len))
  /\ apc' = "led"
  /\ pos' = 0
  /\ buf' = <<>>
  /\ result' = NoResult
  /\ nset' = 1
  /\ nack' = 0
  /\ mismatch' = FALSE

CallLed ==
  /\ Idle
  /\ rev = controller_py
  /\ StartLed
  /\ UNCHANGED <<keepVars, lastSet>>

LedReply ==
  /\ apc = "led"
  /\ cpc = "ret"
  /\ nack' = IF echo(msg, data) THEN nack + 1 ELSE nack
  /\ mismatch' = ~echo(msg, data)
  /\ Finish(IF echo(msg, data) THEN Ret("True") ELSE Ret("False"))
  /\ UNCHANGED <<keepVars, call, pos, buf, nset, lastSet>>

(***************************************************************************)
(* The input source of Controller.py: Controller._hdmi_.                   *)
(***************************************************************************)
\* _hdmi_(value) entered by commit(): val is <<>> for _hdmi_()
StartHdmi(val) ==
  /\ call' = [op |-> "hdmi", opt |-> "", val |-> val]
  /\ Issue(IF val # <<>>
           THEN pad(<<1, 0, IF val[1] # 0 THEN 3 ELSE 2>>, cmd_len)
           ELSE pad(<<1, 1>>, cmd_len))
  /\ apc' = IF val # <<>> THEN "hdmi_set" ELSE "hdmi_get"
  /\ pos' = 0
  /\ buf' = <<>>
  /\ result' = NoResult
  /\ nset' = IF val # <<>> THEN 1 ELSE 0
  /\ nack' = 0
  /\ mismatch' = FALSE

\* ret = self._cmd(pad([1, 1]))[0] & 255; 3 is HDMI, 2 is analogue
HdmiGetReply ==
  /\ apc = "hdmi_get"
  /\ cpc = "ret"
  /\ IF data = <<>>
     THEN Finish(Raise("IndexError"))
     ELSE IF data[1] \notin {2, 3}
     THEN Finish(Raise("protocol"))
     ELSE Finish(Ret(IF data[1] = 3 THEN "True" ELSE "False"))
  /\ UNCHANGED <<keepVars, call, pos, buf, nset, nack, mismatch, lastSet>>

\* return echo(cmd, self._cmd(cmd))
HdmiSetReply ==
  /\ apc = "hdmi_set"
  /\ cpc = "ret"
  /\ nack' = IF echo(msg, data) THEN nack + 1 ELSE nack
  /\ mismatch' = ~echo(msg, data)
  /\ Finish(IF echo(msg, data) THEN Ret("True") ELSE Ret("False"))
  /\ UNCHANGED <<keepVars, call, pos, buf, nset, lastSet>>

(***************************************************************************)
(* The bitrate: Controller.bitrate (controller.py), Controller._bitrate_   *)
(* (Controller.py), Controller._bitrate_set (hs602.py).                    *)
(***************************************************************************)
\* [n & 255, (n >> 8) & 255, (n >> 16) & 255, (n >> 24) & 255]
\* the range the revision documents and tests
BitrateRange(r) == IF r = controller_py THEN 500..20000 ELSE 500..15000

\* the average that is encoded for a requested value
BitrateAverage(r, v) ==
  CASE r = hs602_py -> IF v < 500 THEN 500 ELSE IF v > 15000 THEN 15000 ELSE v
    [] r = Controller_py -> IF v \in 500..15000 THEN v ELSE 15000
    [] OTHER -> IF v \in 500..20000 THEN v ELSE 20000

\* [2, 0] + average + low + high, padded
BitrateFrame(a) ==
  pad(<<2, 0>> \o LE32(a) \o LE32((a * 7) \div 10) \o LE32((a * 13) \div 10),
      cmd_len)

\* the get frame: pad([2, 1]) with the default of pad(), or _pad([2, 1])
BitrateGetFrame(r) ==
  pad(<<2, 1>>, IF r = hs602_py THEN cmd_len ELSE DefaultCmdLen)

\* does the call read the bitrate (first, or instead of the set)?
BitrateReads(r, v) ==
  CASE r = controller_py -> TRUE
    [] r = Controller_py -> v = 0
    [] OTHER -> FALSE

\* the values a caller asks for
BitrateValues == {0, 499, 10000, 999999}

\* a decoding that keeps the lowest byte only
BitrateOf_OneByte(d) == d[1]

\* onezero | twothree
BitrateOf(d) == d[1] + 256 * d[2] + 65536 * d[3] + 16777216 * d[4]

\* the bitrate accessor entered with value v (0: no value given)
StartBitrate(v) ==
  /\ call' = [op |-> "bitrate", opt |-> "", val |-> <<v>>]
  /\ IF BitrateReads(rev, v)
     THEN /\ Issue(BitrateGetFrame(rev))
          /\ apc' = "bit_get"
          /\ nset' = 0
     ELSE /\ Issue(BitrateFrame(BitrateAverage(rev, v)))
          /\ apc' = "bit_set"
          /\ nset' = 1
  /\ pos' = 0
  /\ buf' = <<>>
  /\ result' = NoResult
  /\ nack' = 0
  /\ mismatch' = FALSE

CallBitrate ==
  /\ Idle
  /\ rev \in {controller_py, Controller_py, hs602_py}
  /\ \E v \in BitrateValues : StartBitrate(v)
  /\ UNCHANGED <<keepVars, lastSet>>

BitrateGetReply ==
  /\ apc = "bit_get"
  /\ cpc = "ret"
  /\ IF Len(data) < 4
     THEN /\ Finish(Raise("IndexError"))
          /\ UNCHANGED nset
     ELSE IF rev = controller_py
     THEN /\ Issue(BitrateFrame(BitrateAverage(rev, call.val[1])))
          /\ apc' = "bit_set"
          /\ nset' = nset + 1
          /\ UNCHANGED result
     ELSE /\ Finish(RetVal("int", <<BitrateOf(data)>>))
          /\ UNCHANGED nset
  /\ UNCHANGED <<keepVars, call, pos, buf, nack, mismatch, lastSet>>

BitrateSetReply ==
  /\ apc = "bit_set"
  /\ cpc = "ret"
  /\ nack' = IF echo(msg, data) THEN nack + 1 ELSE nack
  /\ mismatch' = ~echo(msg, data)
  /\ Finish(IF rev = controller_py
            THEN (IF echo(msg, data) THEN RetVal("int", call.val)
                  ELSE Raise("rejected"))
            ELSE (IF echo(msg, data) THEN Ret("True") ELSE Ret("False")))
  /\ UNCHANGED <<keepVars, call, pos, buf, nset, lastSet>>

(***************************************************************************)
(* The streaming toggle: Controller.streaming (controller.py),             *)
(* Controller._toggle_ (Controller.py), _toggle_get/_toggle_set (hs602.py).*)
(***************************************************************************)
ToggleGetFrame == pad(<<15, 1>>, cmd_len)

ToggleSetFrame == pad(<<15, 0>>, cmd_len)

\* a get that says streaming whatever the reply holds
ToggleValue_Always(d) == TRUE

\* bool(reply[0] & 255)
ToggleValue(d) == d[1] # 0

BoolTag(b) == IF b THEN "True" ELSE "False"

\* streaming(toggle=True) of controller.py reads, toggles and reads again
ToggleReads(r) == r = controller_py

othVars == <<baseVars, peer, udp_socket, replies, cmVars, queue, devVars, sock, old_sock, cmd_count, rx, eof, unanswered, carried>>

\* the streaming accessor entered as a get or as a toggle
StartStreaming(t) ==
  /\ call' = [op |-> "streaming", opt |-> t, val |-> <<>>]
  /\ IF t = "toggle" /\ ~ToggleReads(rev)
     THEN /\ Issue(ToggleSetFrame)
          /\ apc' = "tog_set"
          /\ nset' = 1
     ELSE /\ Issue(ToggleGetFrame)
          /\ apc' = "tog_get"
          /\ nset' = 0
  /\ pos' = 0
  /\ buf' = <<>>
  /\ result' = NoResult
  /\ nack' = 0
  /\ mismatch' = FALSE

CallStreaming ==
  /\ Idle
  /\ rev \in {controller_py, Controller_py, hs602_py}
  /\ \E t \in {"get", "toggle"} : StartStreaming(t)
  /\ UNCHANGED <<keepVars, lastSet>>

StreamingGetReply ==
  /\ apc \in {"tog_get", "tog_reget"}
  /\ cpc = "ret"
  /\ IF data = <<>>
     THEN /\ Finish(Raise("IndexError"))
          /\ UNCHANGED <<nset, togVars>>
     ELSE LET b == BoolTag(ToggleValue(data))
          IN /\ before' = b
             /\ ntog' = 0
             /\ chk' = IF before = "none" \/ ntog # 1 THEN "none"
                       ELSE IF b = before THEN "same" ELSE "flipped"
             /\ IF apc = "tog_get" /\ call.opt = "toggle"
                THEN /\ Issue(ToggleSetFrame)
                     /\ apc' = "tog_set"
                     /\ nset' = nset + 1
                     /\ UNCHANGED result
                ELSE /\ Finish(Ret(b))
                     /\ UNCHANGED nset
  /\ UNCHANGED <<othVars, call, pos, buf, nack, mismatch, lastSet>>

StreamingSetReply ==
  /\ apc = "tog_set"
  /\ cpc = "ret"
  /\ IF echo(msg, data)
     THEN /\ nack' = nack + 1
          /\ ntog' = Min(ntog + 1, 2)
          /\ UNCHANGED mismatch
          /\ IF ToggleReads(rev)
             THEN /\ Issue(ToggleGetFrame)
                  /\ apc' = "tog_reget"
                  /\ UNCHANGED result
             ELSE Finish(Ret("True"))
     ELSE /\ mismatch' = TRUE
          /\ Finish(IF ToggleReads(rev) THEN Raise("rejected") ELSE Ret("False"))
          /\ UNCHANGED <<nack, ntog>>
  /\ UNCHANGED <<othVars, before, chk, call, pos, buf, nset, lastSet>>

(***************************************************************************)
(* The lookups: Controller.resolution and Controller.mode (controller.py), *)
(* Controller._mode_ (Controller.py), _resolution_str_get and              *)
(* _stream_mode_str_get (hs602.py).                                        *)
(***************************************************************************)
\* the codes of the resolution table
ResolutionCodes == 0..42

\* the codes of the stream-mode table
ModeCodes(r) == IF r = controller_py THEN 0..2 ELSE 0..4

\* what a resolution code outside the table makes of the call
UnknownResolution(r) == IF r = hs602_py THEN Ret("unknown") ELSE Raise("protocol")

\* what a stream-mode code outside the table makes of the call
UnknownMode(r) ==
  CASE r = controller_py -> Raise("IndexError")
    [] r = Controller_py -> Ret("None")
    [] OTHER -> Raise("ValueError")

CallLookup ==
  /\ Idle
  /\ \E t \in {"resolution", "mode"} :
       /\ rev \in (IF t = "resolution" THEN {controller_py, hs602_py}
                   ELSE {controller_py, Controller_py, hs602_py})
       /\ call' = [op |-> t, opt |-> "", val |-> <<>>]
       /\ Issue(pad(<<IF t = "resolution" THEN 4 ELSE 8, 1>>, cmd_len))
  /\ apc' = "lookup"
  /\ pos' = 0
  /\ buf' = <<>>
  /\ result' = NoResult
  /\ nset' = 0
  /\ nack' = 0
  /\ mismatch' = FALSE
  /\ UNCHANGED <<keepVars, lastSet>>

LookupReply ==
  /\ apc = "lookup"
  /\ cpc = "ret"
  /\ IF data = <<>>
     THEN Finish(Raise("IndexError"))
     ELSE LET code == data[1]
          IN IF call.op = "resolution"
             THEN Finish(IF code \in ResolutionCodes THEN RetVal("label", <<code>>)
                         ELSE UnknownResolution(rev))
             ELSE Finish(IF code \in ModeCodes(rev) THEN RetVal("label", <<code>>)
                         ELSE UnknownMode(rev))
  /\ UNCHANGED <<keepVars, call, pos, buf, nset, nack, mismatch, lastSet>>

(***************************************************************************)
(* The frames per second: Controller.fps (controller.py), _fps_            *)
(* (Controller.py), _fps_get and _fps_set (hs602.py).                      *)
(***************************************************************************)
\* if value not in range(1, 61): value = 60
FpsValue(v) == IF v \in 1..60 THEN v ELSE 60

\* pad([19, 0] + fps) with the four bytes of the value, low byte first
FpsFrame(v) == pad(<<19, 0>> \o LE32(FpsValue(v)), cmd_len)

\* does the call read the rate (first, or instead of the set)?
FpsReads(r, val) ==
  CASE r = controller_py -> TRUE
    [] r = Controller_py -> val = <<>> \/ val = <<0>>
    [] OTHER -> val = <<>>

\* does the set hand its frame to the command?  controller.py and
\* Controller.py hand it to echo() with cmd_len instead
FpsWrites(r) == r = hs602_py

\* echo(frame, self.cmd_len): a frame never equals a length
EchoesLength(frame, n) == FALSE

\* the verdict of _fps_set on the reply: if ret == value: return True
FpsVerdict(d, v) ==
  IF Len(d) < 3 THEN Raise("IndexError")
  ELSE IF d[3] = FpsValue(v) THEN Ret("True") ELSE Ret("None")

CallFps ==
  /\ Idle
  /\ rev \in {controller_py, Controller_py, hs602_py}
  /\ \E val \in {<<>>, <<30>>, <<61>>} :
       /\ call' = [op |-> "fps", opt |-> "", val |-> val]
       /\ IF FpsReads(rev, val)
          THEN /\ Issue(pad(<<19, 1>>, cmd_len))
               /\ apc' = "fps_get"
               /\ nset' = 0
               /\ result' = NoResult
          ELSE IF FpsWrites(rev)
          THEN /\ Issue(FpsFrame(val[1]))
               /\ apc' = "fps_set"
               /\ nset' = 1
               /\ result' = NoResult
          ELSE /\ Finish(Ret(IF EchoesLength(FpsFrame(val[1]), cmd_len)
                             THEN "True" ELSE "False"))
               /\ nset' = 0
  /\ pos' = 0
  /\ buf' = <<>>
  /\ nack' = 0
  /\ mismatch' = FALSE
  /\ UNCHANGED <<keepVars, lastSet>>

\* ret = self.cmd(pad([19, 1], self.cmd_len))[0] & 255, then the set of
\* controller.py
FpsGetReply ==
  /\ apc = "fps_get"
  /\ cpc = "ret"
  /\ IF data = <<>>
     THEN Finish(Raise("IndexError"))
     ELSE IF call.val = <<>> \/ rev # controller_py
     THEN Finish(RetVal("int", <<data[1]>>))
     ELSE IF EchoesLength(FpsFrame(call.val[1]), cmd_len)
     THEN Finish(RetVal("int", <<FpsValue(call.val[1])>>))
     ELSE Finish(Raise("rejected"))
  /\ UNCHANGED <<keepVars, call, pos, buf, nset, nack, mismatch, lastSet>>

\* ret = self._cmd(cmd)[2]
FpsSetReply ==
  /\ apc = "fps_set"
  /\ cpc = "ret"
  /\ Finish(FpsVerdict(data, call.val[1]))
  /\ UNCHANGED <<keepVars, call, pos, buf, nset, nack, mismatch, lastSet>>

(***************************************************************************)
(* The picture size: Controller.picture (controller.py) without a value,   *)
(* _picture_size_get (hs602.py).                                           *)
(***************************************************************************)
RECURSIVE BitAnd(_, _)
\* a & b of two non-negative integers
BitAnd(a, b) ==
  IF a = 0 \/ b = 0 THEN 0
  ELSE (a % 2) * (b % 2) + 2 * BitAnd(a \div 2, b \div 2)

\* a & (m << s) for a byte a: the bits of m << s below bit 8 decide
AndShifted(a, m, s) == IF s >= 8 THEN 0 ELSE BitAnd(a, (m * 2^s) % 256)

\* ret[i] & 255 + (ret[i+1] & 255) << 8 + (ret[i+2] & 255) << 16
\*   + (ret[i+3] & 255) << 24
\* as Python groups it: + binds tighter than <<, << tighter than &, so it is
\* ret[i] & (((255 + b1) << (8 + b2)) << (16 + b3)) << 24
PictureField(d, i) ==
  AndShifted(d[i + 1], 255 + BitAnd(d[i + 2], 255),
             (8 + BitAnd(d[i + 3], 255)) + (16 + BitAnd(d[i + 4], 255)) + 24)

CallPicture ==
  /\ Idle
  /\ rev \in {controller_py, hs602_py}
  /\ call' = [op |-> "picture", opt |-> "", val |-> <<>>]
  /\ Issue(pad(<<3, 1>>, cmd_len))
  /\ apc' = "picture"
  /\ pos' = 0
  /\ buf' = <<>>
  /\ result' = NoResult
  /\ nset' = 0
  /\ nack' = 0
  /\ mismatch' = FALSE
  /\ UNCHANGED <<keepVars, lastSet>>

PictureReply ==
  /\ apc = "picture"
  /\ cpc = "ret"
  /\ IF Len(data) < 8
     THEN Finish(Raise("IndexError"))
     ELSE LET height == PictureField(data, 0)
              width == PictureField(data, 4)
          IN IF width \notin 0..1920 \/ height \notin 0..1080
             THEN Finish(Raise("protocol"))
             ELSE Finish(RetVal("size", <<width, height>>))
  /\ UNCHANGED <<keepVars, call, pos, buf, nset, nack, mismatch, lastSet>>

(***************************************************************************)
(* An exception of the command leaves the accessor; the caller then takes  *)
(* the result and the client is idle again.                                *)
(***************************************************************************)
CmdRaised ==
  /\ cpc = "exc"
  /\ result' = Raise(exc)
  /\ apc' = "done"
  /\ cpc' = "idle"
  /\ UNCHANGED <<keepVars, call, pos, buf, nset, nack, mismatch, lastSet,
                 msg, data, errs, resends, exc, ev>>

\* the accessor and the command are left behind
Leave ==
  /\ apc' = "idle"
  /\ call' = NoCall
  /\ result' = NoResult
  /\ pos' = 0
  /\ buf' = <<>>
  /\ nset' = 0
  /\ nack' = 0
  /\ mismatch' = FALSE
  /\ msg' = <<>>
  /\ data' = <<>>
  /\ errs' = 0
  /\ resends' = 0
  /\ exc' = "none"
  /\ ev' = <<>>
  /\ replies' = <<>>

Return ==
  /\ apc = "done"
  /\ Leave
  /\ UNCHANGED <<setupVars, peer, udp_socket, cmVars, queue, devVars, sock, old_sock,
                 cmd_count, rx, eof, unanswered, carried, cpc, lastSet>>

(***************************************************************************)
(* Discovery as a call of its own, and the change of address and ports     *)
(* between calls.                                                          *)
(***************************************************************************)
\* Controller.discover (controller.py, Controller.py), _devices_get (hs602.py)
CallDiscover ==
  /\ Idle
  /\ rev \in {controller_py, Controller_py, hs602_py}
  /\ \E reps \in ReplyLists :
       /\ replies' = reps
       /\ result' = DevicesGet(rev, reps)
  /\ call' = [op |-> "discover", opt |-> "", val |-> <<>>]
  /\ apc' = "done"
  /\ IF rev = hs602_py
     THEN InitAgain /\ addr' = 0
     ELSE UNCHANGED <<tcp, udp, cmd_len, cmd_limit, sock, old_sock, cmd_count,
                      carried, addr>>
  /\ udp_socket' = UdpAfter(rev, TRUE)
  /\ UNCHANGED <<rev, net, togVars, cmVars, queue, nconf, peer, devVars, pos,
                 buf, nset, nack, mismatch,
                 lastSet, cpc, msg, data, errs, resends, exc, ev, rx, eof,
                 unanswered>>

\* the address and port setters of hs602.py end in self._close();
\* controller.py keeps plain attributes
ClosesOnChange(r) == r = hs602_py

Reconfigured ==
  /\ Idle
  /\ rev \in {controller_py, hs602_py}
  /\ nconf < MaxReconf
  /\ nconf' = nconf + 1
  /\ sock' = IF ClosesOnChange(rev) THEN Closed(rev, sock) ELSE sock
  /\ cmd_count' = IF ClosesOnChange(rev) THEN 0 ELSE cmd_count
  /\ carried' = IF ClosesOnChange(rev) THEN 0 ELSE carried
  /\ UNCHANGED <<rev, net, togVars, cmVars, queue, cmd_len, cmd_limit, peer, udp_socket, replies, accVars,
                 devVars,
                 old_sock, cpc, msg, data, errs, resends, exc, ev, rx, eof,
                 unanswered>>

SetAddr ==
  /\ \E a \in Devices \ {addr} : addr' = a
  /\ Reconfigured
  /\ UNCHANGED <<tcp, udp>>

SetTcp ==
  /\ \E v \in TcpPorts \ {tcp} : tcp' = v
  /\ Reconfigured
  /\ UNCHANGED <<addr, udp>>

SetUdp ==
  /\ \E v \in UdpPorts \ {udp} : udp' = v
  /\ Reconfigured
  /\ UNCHANGED <<addr, tcp>>

Next ==
  \/ CallRtmpGet \/ CallRtmpSet \/ RtmpGetReply \/ RtmpSetCharReply
  \/ RtmpSetTermReply
  \/ CallSource \/ SourceGetReply \/ SourceSetReply
  \/ CallColour \/ ColourGetReply \/ ColourSetReply
  \/ CallLed \/ LedReply
  \/ CallBitrate \/ BitrateGetReply \/ BitrateSetReply
  \/ CmdRaised \/ Return
  \/ CmdEnter \/ KnockOk \/ KnockFail \/ ConnectOk \/ ConnectFail
  \/ SendFaithful \/ SendGarbled \/ SendCut \/ SendSilent
  \/ SendFail \/ RecvChunk \/ RecvZero \/ RecvTimeout

Spec == Init /\ [][Next]_vars

\* the command with discovery and with changes of address and ports
NextDisc ==
  \/ CallRtmpGet \/ RtmpGetReply \/ CallLed \/ LedReply
  \/ CmdRaised \/ Return
  \/ CmdEnter \/ KnockOk \/ KnockFail \/ ConnectOk \/ ConnectFail
  \/ SendFaithful \/ SendGarbled \/ SendCut \/ SendSilent
  \/ SendFail \/ RecvChunk \/ RecvZero \/ RecvTimeout
  \/ DiscoverInCmd \/ CallDiscover \/ SetAddr \/ SetTcp \/ SetUdp

SpecDisc == InitDisc /\ [][NextDisc]_vars

\* the scalar accessors: streaming toggle, source, resolution, stream mode
InitScalar == Start({controller_py, Controller_py, hs602_py}, {1}, {<<>>})

NextScalar ==
  \/ CallStreaming \/ StreamingGetReply \/ StreamingSetReply
  \/ CallLookup \/ LookupReply
  \/ CallSource \/ SourceGetReply \/ SourceSetReply
  \/ CallFps \/ FpsGetReply \/ FpsSetReply
  \/ CallPicture \/ PictureReply
  \/ CmdRaised \/ Return
  \/ CmdEnter \/ KnockOk \/ KnockFail \/ ConnectOk \/ ConnectFail
  \/ SendFaithful \/ SendGarbled \/ SendCut \/ SendSilent
  \/ SendFail \/ RecvChunk \/ RecvZero \/ RecvTimeout

SpecScalar == InitScalar /\ [][NextScalar]_vars

(***************************************************************************)
(* The queue of Controller.py: the property setters put (key, value) on    *)
(* the queue, commit() takes the items off and calls the accessor of each, *)
(* _cache_() reads the properties back and _close() replaces the queue.    *)
(***************************************************************************)
\* the assignments a caller makes: device.bitrate = 0, device.bitrate =
\* 10000, device.bitrate = 20000, device.toggle = True, device.led = True,
\* device.hdmi = False, device.hdmi = True
AssignItems ==
  {[k |-> "bitrate", v |-> 0], [k |-> "bitrate", v |-> 10000],
   [k |-> "bitrate", v |-> 20000],
   [k |-> "toggle", v |-> 1], [k |-> "led", v |-> 1],
   [k |-> "hdmi", v |-> 0], [k |-> "hdmi", v |-> 1]}

\* a setter that queues the key without the value
Queued_Valueless(it) == [k |-> it.k, v |-> 0]

\* what the setter of the property puts on the queue for an assignment:
\* (key, value), and ('led', None) from the setter of led
Queued(it) == IF it.k = "led" THEN [k |-> "led", v |-> 0] ELSE it

\* does commit() change the device with the item: method(value) for a value
\* given, and _led_(), which takes no value
Applies(it) == it.v # 0 \/ it.k = "led"

\* what the getter of a cached property returns: self.__cache[key], and
\* nothing from the getter of led
Cached(k) == IF k \in DOMAIN cache THEN <<cache[k]>> ELSE <<>>

\* self.__backlog_('cache')
CacheItem == [k |-> "cache", v |-> 0]

\* commit() is not running
CommitOff == cmpc \in {"off", "returned", "raised"}

\* commit() is in its loop
Running == cmpc \in {"take", "call", "cacheB", "cacheT"}

\* a property setter: self.__backlog_(key, value)
Assign ==
  /\ Idle
  /\ CommitOff
  /\ Len(assigned) < MaxAssign
  /\ \E it \in AssignItems :
       /\ queue' = Append(queue, Queued(it))
       /\ assigned' = Append(assigned, Queued(it))
       /\ asked' = [op |-> "set", k |-> it.k, v |-> <<it.v>>]
  /\ cmpc' = "off"
  /\ UNCHANGED <<setupVars, peer, udp_socket, replies, cache, cur, handed, fresh, ncommit,
                 blocking, accVars, devVars, sock, old_sock, cmd_count, rx, eof, unanswered, carried,
                 cpc, msg, data, errs, resends, exc, ev>>

\* a property setter called by another thread while commit(True) runs
AssignMeanwhile ==
  /\ blocking
  /\ Running
  /\ Len(assigned) < MaxAssign
  /\ \E it \in AssignItems :
       /\ queue' = Append(queue, Queued(it))
       /\ assigned' = Append(assigned, Queued(it))
       /\ asked' = [op |-> "set", k |-> it.k, v |-> <<it.v>>]
  /\ UNCHANGED <<setupVars, peer, udp_socket, replies, cache, cmpc, cur, handed, fresh,
                 ncommit, blocking, accVars, devVars, sock, old_sock, cmd_count,
                 rx, eof, unanswered, carried, cpc, msg, data, errs, resends, exc, ev>>

\* a property getter: return self.__cache[key]
ReadProperty ==
  /\ Idle
  /\ CommitOff
  /\ \E k \in {"bitrate", "toggle", "led"} :
       asked' = [op |-> "get", k |-> k, v |-> Cached(k)]
  /\ UNCHANGED <<setupVars, peer, udp_socket, replies, cache, cmpc, cur, assigned, handed,
                 fresh, ncommit, blocking, queue, accVars, devVars, sock, old_sock,
                 cmd_count, rx, eof, unanswered, carried, cpc, msg, data, errs, resends, exc, ev>>

\* commit() is entered
CommitCalled ==
  /\ Idle
  /\ CommitOff
  /\ ncommit < MaxCommit
  /\ ncommit' = ncommit + 1
  /\ cmpc' = "take"
  /\ UNCHANGED <<setupVars, peer, udp_socket, replies, cache, cur, assigned, handed, fresh,
                 asked, queue, accVars, devVars, sock, old_sock, cmd_count, rx,
                 eof, unanswered, carried, cpc, msg, data, errs, resends, exc, ev>>

\* device.commit()
CommitBegin ==
  /\ blocking' = FALSE
  /\ CommitCalled

\* device.commit(True)
CommitBeginBlocking ==
  /\ blocking' = TRUE
  /\ CommitCalled

\* queue.get raises queue.Empty, when blocking after the timeout: the
\* refresh is queued and the loop is left if not blocking
CommitEmpty ==
  /\ cmpc = "take"
  /\ queue = <<>>
  /\ queue' = <<CacheItem>>
  /\ cmpc' = IF blocking THEN "take" ELSE "returned"
  /\ UNCHANGED <<setupVars, peer, udp_socket, replies, cache, cur, assigned, handed, fresh,
                 asked, blocking, ncommit, accVars, devVars, sock, old_sock,
                 cmd_count, rx, eof, unanswered, carried, cpc, msg, data, errs, resends, exc, ev>>

\* queue.get returns the oldest item; method(value) if value else method()
CommitTake ==
  /\ cmpc = "take"
  /\ queue # <<>>
  /\ LET it == Head(queue)
     IN /\ queue' = Tail(queue)
        /\ cur' = it
        /\ CASE it.k = "bitrate" -> StartBitrate(it.v) /\ cmpc' = "call"
             [] it.k = "toggle" ->
                  /\ StartStreaming(IF it.v # 0 THEN "toggle" ELSE "get")
                  /\ cmpc' = "call"
             [] it.k = "led" -> StartLed /\ cmpc' = "call"
             [] it.k = "hdmi" ->
                  /\ StartHdmi(IF it.v # 0 THEN <<it.v>> ELSE <<>>)
                  /\ cmpc' = "call"
             [] OTHER -> StartBitrate(0) /\ cmpc' = "cacheB"
        /\ handed' = IF Applies(it) THEN Append(handed, it) ELSE handed
        /\ fresh' = IF Applies(it) THEN FALSE ELSE fresh
  /\ UNCHANGED <<setupVars, peer, udp_socket, replies, cache, assigned, ncommit, asked,
                 blocking, devVars,
                 sock, old_sock, cmd_count, rx, eof, unanswered, carried, lastSet>>

\* the accessor of the item is back: an exception leaves commit(), anything
\* else is followed by self.__cache.update({key: value}) for a value given
CommitCallDone ==
  /\ cmpc = "call"
  /\ apc = "done"
  /\ Leave
  /\ cmpc' = IF result.kind = "raise" THEN "raised" ELSE "take"
  /\ cache' = IF result.kind # "raise" /\ cur.v # 0 /\ cur.k \in DOMAIN cache
               THEN [cache EXCEPT ![cur.k] = cur.v] ELSE cache
  /\ cur' = NoItem
  /\ UNCHANGED <<setupVars, peer, udp_socket, assigned, handed, fresh, ncommit, asked,
                 blocking, queue, devVars, sock, old_sock, cmd_count, rx, eof, unanswered, carried, cpc,
                 lastSet>>

\* _cache_(): 'bitrate': self._bitrate_() is back, 'toggle': self._toggle_()
\* is next
CacheBitrateDone ==
  /\ cmpc = "cacheB"
  /\ apc = "done"
  /\ IF result.kind = "raise"
     THEN /\ Leave
          /\ cmpc' = "raised"
          /\ cur' = NoItem
          /\ UNCHANGED cpc
     ELSE /\ StartStreaming("get")
          /\ cmpc' = "cacheT"
          /\ cur' = [cur EXCEPT !.v = result.val[1]]
          /\ UNCHANGED replies
  /\ UNCHANGED <<setupVars, peer, udp_socket, cache, assigned, handed, fresh, ncommit,
                 asked, blocking, queue, devVars, sock, old_sock, cmd_count, rx, eof, unanswered, carried, lastSet>>

\* _cache_(): every accessor is back and the cache takes what they read
CacheToggleDone ==
  /\ cmpc = "cacheT"
  /\ apc = "done"
  /\ Leave
  /\ cur' = NoItem
  /\ IF result.kind = "raise"
     THEN /\ cmpc' = "raised"
          /\ UNCHANGED <<cache, fresh>>
     ELSE /\ cmpc' = "take"
          /\ cache' = [bitrate |-> cur.v,
                       toggle |-> IF result.tag = "True" THEN 1 ELSE 0]
          /\ fresh' = TRUE
  /\ UNCHANGED <<setupVars, peer, udp_socket, assigned, handed, ncommit, asked, blocking,
                 queue, devVars, sock, old_sock, cmd_count, rx, eof, unanswered, carried, cpc, lastSet>>

\* KeyboardInterrupt reaches the thread of commit(True), wherever it is
Interrupt ==
  /\ blocking
  /\ Running
  /\ cmpc' = "stopped"
  /\ cur' = NoItem
  /\ Leave
  /\ cpc' = "idle"
  /\ UNCHANGED <<setupVars, peer, udp_socket, cache, assigned, handed, fresh, ncommit,
                 asked, blocking, queue, devVars, sock, old_sock, cmd_count, rx,
                 eof, unanswered, carried, lastSet>>

InitCommit == Start({Controller_py}, {1}, {<<>>})

\* the steps of commit() and of the accessors and commands it calls
CommitSteps ==
  \/ CommitEmpty \/ CommitTake \/ CommitCallDone
  \/ CacheBitrateDone \/ CacheToggleDone
  \/ BitrateGetReply \/ BitrateSetReply
  \/ StreamingGetReply \/ StreamingSetReply \/ LedReply
  \/ HdmiGetReply \/ HdmiSetReply
  \/ CmdRaised
  \/ CmdEnter \/ KnockOk \/ KnockFail \/ ConnectOk \/ ConnectFail
  \/ SendFaithful \/ SendGarbled \/ SendCut \/ SendSilent
  \/ SendFail \/ RecvChunk \/ RecvZero \/ RecvTimeout

NextCommit ==
  \/ Assign \/ ReadProperty \/ CommitBegin
  \/ CommitSteps

SpecCommit == InitCommit /\ [][NextCommit]_vars

\* commit(True) in a thread of its own, the setters called meanwhile
NextBlocking ==
  \/ Assign \/ AssignMeanwhile \/ CommitBeginBlocking \/ Interrupt
  \/ CommitSteps

SpecBlocking == InitCommit /\ [][NextBlocking]_vars

(***************************************************************************)
(* The command limit of hs602.py set between calls.                        *)
(***************************************************************************)
\* _cmd_limit_set: "if not self._valid_int(value): return", then
\* self._cmd_limit = int(value)
SetCmdLimit ==
  /\ Idle
  /\ rev = hs602_py
  /\ \E v \in {0, 1, 2, CmdLimit} :
       /\ ValidInt(v)
       /\ v # cmd_limit
       /\ cmd_limit' = v
  /\ UNCHANGED <<rev, cmd_len, net, addr, tcp, udp, nconf, togVars, peer,
                 udp_socket, replies, cmVars, queue, accVars, devVars, sock,
                 old_sock, cmd_count, rx, eof, unanswered, carried, cpc, msg,
                 data, errs, resends, exc, ev>>

InitLimit == Start({hs602_py}, {1}, {<<>>})

NextLimit ==
  \/ SetCmdLimit
  \/ CallLookup \/ LookupReply
  \/ CmdRaised \/ Return
  \/ CmdEnter \/ KnockOk \/ KnockFail \/ ConnectOk \/ ConnectFail
  \/ SendFaithful \/ SendCut \/ SendSilent
  \/ SendFail \/ RecvChunk \/ RecvZero \/ RecvTimeout

SpecLimit == InitLimit /\ [][NextLimit]_vars

(***************************************************************************)
(* Properties.                                                             *)
(***************************************************************************)
Kinds(s) == [i \in 1..Len(s) |-> s[i].e]

FirstErr(s) == CHOOSE i \in 1..Len(s) :
                 s[i].e = "ioerr" /\ \A j \in 1..(i - 1) : s[j].e # "ioerr"

WritesCarry(f) == \A i \in 1..Len(ev) : ev[i].e = "write" => ev[i].f = f

\* C1: in Controller._cmd (Controller.py) a command sees at most two socket
\* errors and makes at most two send attempts, all with the same frame; the
\* first error is followed by close, knock, connect and the resend, in that
\* order; a second error leaves the command as an exception and nothing
\* more is attempted.
C1_RetryOnce ==
  rev = Controller_py =>
    LET n == Count(ev, "ioerr")
        k == Kinds(ev)
    IN /\ n <= 2
       /\ Count(ev, "write") <= 2
       /\ WritesCarry(msg)
       /\ n >= 1 =>
            LET i == FirstErr(ev)
            IN IsPrefix(SubSeq(k, i + 1, Min(Len(k), i + 4)),
                        <<"close", "knock", "connect", "write">>)
       /\ n = 2 => /\ cpc \in {"exc", "idle"}
                   /\ exc = "io"
                   /\ k[Len(k)] = "ioerr"
                   /\ (apc = "done" => result = Raise("io"))

\* both attempts of a command of Controller.py failed
C1_Witness ==
  rev = Controller_py /\ Count(ev, "ioerr") = 2 /\ cpc = "exc"
    /\ Count(ev, "knock") = 1 /\ Count(ev, "connect") = 1

\* C2 as stated: once Controller.cmd (controller.py) raised on a send or
\* receive failure the client holds no live session, so that the next cmd
\* knocks and connects anew.
C2_Original ==
  (rev = controller_py /\ apc = "done" /\ result = Raise("io"))
    => NeedNew(rev, sock, 0)

\* a result that tells the caller the write was refused
Refused(res) ==
  \/ res = Raise("rejected")
  \/ res.kind = "return" /\ res.tag \in {"False", "None"}

\* C3 as stated: a set whose reply differs from the frame sent ends in a
\* rejection and never as a completed write (here even a False or None
\* status counts as the rejection signal).
C3_Original ==
  (rev \in {controller_py, hs602_py} /\ apc = "done" /\ mismatch
     /\ result.kind = "return")
    => Refused(result)

\* C4 as stated: a connect directly follows a knock of the same command,
\* and a send or receive failure leaves no open session behind.
C4_Original ==
  rev \in {controller_py, Controller_py} =>
    /\ \A i \in 1..Len(ev) :
         ev[i].e = "connect" => i > 1 /\ ev[i - 1].e = "knock"
    /\ (cpc = "exc" /\ exc = "io") => sock # "open"

C6_Original ==
  (rev \in {controller_py, hs602_py} /\ call.op = "rtmp_set" /\ mismatch
     /\ nset <= Len(call.val))
    => apc = "done" /\ result = Raise("rejected")

NonZero(s) == \A i \in 1..Len(s) : s[i] # 0

\* the get loop requests index 0, 1, 2, ... one character per non-zero reply
\* byte, never an index above maxIndex, and returns what it gathered
GetLoop(maxIndex) ==
  rev \in {controller_py, Controller_py, hs602_py} =>
    /\ apc = "get" =>
         /\ SubSeq(msg, 1, 3) = <<RtmpOptions(rev)[call.opt], 1, pos>>
         /\ pos = Len(buf)
         /\ pos <= maxIndex
         /\ NonZero(buf)
    /\ (apc = "done" /\ call.op = "rtmp_get" /\ result.kind = "return") =>
         /\ result.val = buf
         /\ NonZero(buf)
         /\ Len(result.val) <= maxIndex + 1

\* C7 as stated: no get request carries an index above 253 and the string
\* returned has at most 254 characters.
C7_Original == GetLoop(253)

\* C7 amended: no get request carries an index above 254 and the string
\* returned has at most 255 characters (hs602.py stops at index 253).
C7_GetCeiling == GetLoop(254)

\* controller.py returned a string of 255 characters
C7_Witness ==
  /\ rev = controller_py
  /\ apc = "done"
  /\ call.op = "rtmp_get"
  /\ result.kind = "return"
  /\ Len(result.val) = 255

\* C8 as stated: against the echoing device a get that follows a successful
\* set of v returns v.
C8_Original ==
  (rev \in {controller_py, hs602_py} /\ net = "ideal" /\ apc = "done"
     /\ call.op = "rtmp_get" /\ result.kind = "return" /\ lastSet # <<>>)
    => result.val = lastSet

\* C9 as stated: every frame controller.py writes has cmd_len bytes.
C9_Original ==
  (rev = controller_py /\ cpc = "recv") => Len(msg) = cmd_len

\* C10 as stated: a command that returns normally returns exactly cmd_len
\* reply bytes.
C10_Original ==
  (rev \in {controller_py, Controller_py, HS602_py} /\ cpc = "ret")
    => Len(data) = cmd_len

\* C11 as stated: after a zero-length read that came before cmd_len reply
\* bytes, the command of controller.py and Controller.py never hands a short
\* or empty reply to the accessor.
C11_Original ==
  (rev \in {controller_py, Controller_py} /\ cpc = "ret" /\ Count(ev, "close") > 0)
    => Len(data) >= cmd_len

NoDup(s) == \A i, j \in 1..Len(s) : s[i] = s[j] => i = j

Range(s) == {s[i] : i \in 1..Len(s)}

\* C12 as stated: a discovery returns a list holding exactly the distinct
\* source addresses of the replies whose payload is the pong, and the empty
\* list when nothing answered.
C12_Original ==
  (call.op = "discover" /\ apc = "done") =>
    /\ result.kind = "return"
    /\ result.tag = "list"
    /\ Range(result.val) = Range(PongAddrs(replies))
    /\ NoDup(result.val)

UsesNet(e) == e.e \in {"knock", "connect", "write"}

C14_Original ==
  [][(addr' # addr \/ tcp' # tcp \/ udp' # udp) => sock' # "open"]_vars

\* C15 as stated: a call that rejects a scalar outside 0..255 with a value
\* error has sent nothing: no knock, no connect and no frame.
C15_Original ==
  (call.op = "colour" /\ apc = "done" /\ result = Raise("ValueError"))
    => ev = <<>>

\* C16 as stated: a bitrate set always sends the set frame
\* [2, 0, LE32(a), LE32(7a/10), LE32(13a/10)] padded to cmd_len, with a the
\* requested value when it lies in the documented range and a value of that
\* range otherwise; no request ends without its set frame.
C16_Original ==
  (rev \in {controller_py, Controller_py, hs602_py} /\ call.op = "bitrate") =>
    LET v == call.val[1]
    IN /\ apc = "bit_set" =>
            \E a \in BitrateRange(rev) :
               /\ v \in BitrateRange(rev) => a = v
               /\ msg = pad(<<2, 0>> \o LE32(a) \o LE32((7 * a) \div 10)
                                     \o LE32((13 * a) \div 10), cmd_len)
       /\ (apc = "done" /\ result.kind = "return") => nset = 1

C18_Original ==
  (apc = "done" /\ result.kind = "return" /\ data # <<>>) =>
    /\ call.op = "resolution" => data[1] \in ResolutionCodes
    /\ call.op = "mode" => data[1] \in ModeCodes(rev)
    /\ call.op = "source" => data[1] \in {2, 3}

\* C19 as stated: when commit() of Controller.py has returned, the
\* assignments made before it were each handed to the accessor of their
\* property as method(value), once and in the order of assignment
C19_Original == cmpc = "returned" => handed = assigned

\* C20 as stated: when commit(blocking=False) of Controller.py has returned,
\* a full read by _cache_() has ended after the last change was handed to
\* its accessor
C20_Original == cmpc = "returned" => fresh

\* a step in which the caller assigns or reads a cached property of
\* Controller.py
UsesProperty == assigned' # assigned \/ asked' # asked

\* the step sends no frame and leaves the cache, the session and the device
\* alone
NoFrameNoChange ==
  UNCHANGED <<cache, sock, old_sock, peer, udp_socket, cmd_count, cpc, msg, ev, rx, eof, unanswered, carried,
              devVars>>

\* C21 as stated: an assignment to a cached property only appends (name,
\* value) to the queue, a read returns the cached value, and neither sends a
\* frame or changes the cache or the session
C21_Original ==
  [][UsesProperty =>
       /\ asked'.op = "set" =>
            queue' = Append(queue, [k |-> asked'.k, v |-> asked'.v[1]])
       /\ asked'.op = "get" => asked'.v = Cached(asked'.k)
       /\ NoFrameNoChange]_vars

\* C21, amended: as stated for every property but led, whose setter appends
\* ('led', None) whatever value is assigned and whose getter returns None
C21_QueueOnly ==
  [][UsesProperty =>
       /\ asked'.op = "set" =>
            queue' = Append(queue, IF asked'.k = "led"
                                   THEN [k |-> "led", v |-> 0]
                                   ELSE [k |-> asked'.k, v |-> asked'.v[1]])
       /\ asked'.op = "get" =>
            asked'.v = IF asked'.k = "led" THEN <<>> ELSE <<cache[asked'.k]>>
       /\ NoFrameNoChange]_vars

\* a cached bitrate is read after assignments, one of them to led, and a
\* commit() that took the assigned bitrate into the cache
C21_Witness ==
  /\ asked.op = "get"
  /\ asked.k = "bitrate"
  /\ asked.v = <<10000>>
  /\ \E i \in 1..Len(assigned) : assigned[i].k = "led"

\* C22 as stated: commit(blocking=True) of Controller.py leaves its loop only
\* on a stop request, and then with no write of a frame and no read of a
\* reply in progress
C22_Original ==
  [][(blocking /\ Running /\ ~Running') =>
       (cmpc' = "stopped" /\ cpc \notin {"send", "recv"})]_vars

\* C23 as stated: a frame is written only when no earlier frame of the same
\* connection is still without its complete reply
C23_Original == unanswered <= 1

\* C24 as stated: the client never holds two open TCP command sockets, also
\* not across a retry or the cmd_limit rollover of hs602.py, and the socket
\* is closed when a command ends in its terminal error
C24_Original ==
  /\ ~(sock = "open" /\ old_sock = "open")
  /\ (cpc = "exc" /\ exc = "io") => sock # "open"

\* C25 as stated: whenever udp_msg is not running, for discovery as for the
\* knock, the UDP socket it opened is closed
C25_Original == udp_socket # "open"

\* C26: every knock datagram is 67 followed by the four octets of the device
\* address in reverse order, five bytes in all, is sent to the device's
\* address on the UDP port, and is followed by the TCP connect with no read
\* of a reply in between
C26_Knock ==
  \A i \in 1..Len(ev) :
    ev[i].e = "knock" =>
      LET o == Octets(ev[i].a[1])
      IN /\ ev[i].f = <<67, o[4], o[3], o[2], o[1]>>
         /\ Len(ev[i].f) = 5
         /\ ev[i].a = <<addr, udp>>
         /\ i < Len(ev) => ev[i + 1].e = "connect"

\* a frame was written on a connection that the knock for the second
\* device opened
C26_Witness ==
  /\ cpc = "recv"
  /\ \E i \in 1..Len(ev) : ev[i].e = "knock" /\ ev[i].a[1] = 2

\* the position of the last connect in an event log, 0 without one
LastConnect(e) ==
  LET at == {i \in 1..Len(e) : e[i].e = "connect"}
  IN IF at = {} THEN 0 ELSE CHOOSE i \in at : \A j \in at : j <= i

\* the writes of the command on the connection it uses now
WritesOnConnection(e) ==
  Cardinality({i \in (LastConnect(e) + 1)..Len(e) : e[i].e = "write"})

\* a step in which an accessor finds the reply to its set frame different
\* from the frame
FindsMismatch == ~mismatch /\ mismatch'

\* a step in which a lookup finds a code outside its table
FindsUnknownCode ==
  /\ apc = "lookup"
  /\ cpc = "ret"
  /\ data # <<>>
  /\ data[1] \notin (IF call.op = "resolution" THEN ResolutionCodes
                      ELSE ModeCodes(rev))

\* the caller is told of the failure: an exception, or False from the
\* accessors that return the echo test
Surfaced(res) == res.kind = "raise" \/ res.tag = "False"

\* C27 as stated: when a set frame is not echoed or a reply carries a code
\* outside the table, the frame was written once on its connection, nothing
\* is resent or reconnected, and the call ends there and tells the caller
C27_Original ==
  [][(FindsMismatch \/ FindsUnknownCode) =>
       /\ WritesOnConnection(ev) = 1
       /\ ev' = ev
       /\ sock' = sock
       /\ apc' = "done"
       /\ Surfaced(result')]_vars

\* the send attempts of the command so far
SendAttempts(e) == Cardinality({i \in 1..Len(e) : e[i].e = "write"})

\* C28 as stated: a command of hs602.py makes its first send attempt and at
\* most one more
C28_Original == rev = hs602_py => SendAttempts(ev) <= 2

\* the call of colour, source or streaming asks for a change
SetWanted ==
  \/ call.op = "colour" /\ call.val # <<>>
  \/ call.op = "source" /\ call.opt # "None"
  \/ call.op = "streaming" /\ call.opt = "toggle"

\* C29 as stated: the one frame of a get call of colour, source or streaming
\* is its get frame, the one frame of a set call is its set frame, and the
\* call sends no other
C29_Original ==
  (call.op \in {"colour", "source", "streaming"}
     /\ cpc \in {"send", "recv", "ret"}) =>
    /\ IsGet(msg) = ~SetWanted
    /\ apc \notin {"src_reget", "tog_reget"}
    /\ nset <= 1

\* the fps call asks for a value in 1..60
FpsSetInRange == call.op = "fps" /\ call.val # <<>> /\ call.val[1] \in 1..60

\* C30 as stated: a set of fps to a value in 1..60 that returns, or raises
\* its rejection, has written exactly the frame [19, 0, LE32(value)] padded to
\* cmd_len, and it reports success exactly when the reply equals that frame
C30_Original ==
  (FpsSetInRange /\ apc = "done"
     /\ (result.kind = "return" \/ result.tag = "rejected")) =>
    /\ nset = 1
    /\ msg = pad(<<19, 0>> \o LE32(call.val[1]), cmd_len)
    /\ (result = Ret("True")) <=> (data = msg)

\* the unsigned little-endian 32-bit integer of four bytes
Uint32(b) == b[1] + 256 * b[2] + 65536 * b[3] + 16777216 * b[4]

\* C31 as stated: a picture-size get whose reply encodes a height h in
\* 0..1080 in bytes 0..3 and a width w in 0..1920 in bytes 4..7 returns the
\* width w and the height h
C31_Original ==
  (call.op = "picture" /\ apc = "done" /\ Len(data) >= 8
     /\ Uint32(SubSeq(data, 1, 4)) \in 0..1080
     /\ Uint32(SubSeq(data, 5, 8)) \in 0..1920) =>
    result = RetVal("size", <<Uint32(SubSeq(data, 5, 8)),
                              Uint32(SubSeq(data, 1, 4))>>)

\* C32 as stated: in hs602.py the current socket has carried at most
\* cmd_limit commands, and when a command has completed, by returning or by
\* raising, the socket that the rollover superseded is closed
C32_Original ==
  rev = hs602_py =>
    /\ sock = "open" => carried <= cmd_limit
    /\ cpc \in {"ret", "exc"} => old_sock # "open"

\* the value of the item lies in the domain of its property: a bitrate of
\* 500..15000, True for toggle and led, True or False for hdmi
InDomain(it) ==
  CASE it.k = "bitrate" -> it.v \in BitrateRange(Controller_py)
    [] it.k = "hdmi" -> it.v \in {0, 1}
    [] it.k \in {"toggle", "led"} -> TRUE
    [] OTHER -> FALSE

\* C33 as stated: when the accessor that commit() of Controller.py called
\* for a queued item comes back and the value of the item lies in the domain
\* of its property, the accessor has sent a set frame
C33_Original ==
  (cmpc = "call" /\ InDomain(cur) /\ apc = "done" /\ result.kind = "return")
    => nset >= 1

\* C34 as stated: the step in which Controller._cmd (Controller.py) meets its
\* first transport failure under commit() and goes on to its one retry
\* leaves the pending changes in the queue
C34_Original ==
  [][(rev = Controller_py /\ Running /\ errs' = errs + 1) =>
       SelectSeq(queue', Applies) = SelectSeq(queue, Applies)]_vars

\* C35 as stated: the step in which _cmd of hs602.py runs the discovery
\* keeps the TCP and UDP ports, cmd_len and cmd_limit as the caller
\* configured them, and an open socket stays in use unless it is closed
C35_Original ==
  [][(rev = hs602_py /\ cpc = "discover" /\ cpc' # "discover") =>
       /\ <<tcp, udp, cmd_len, cmd_limit>>' = <<tcp, udp, cmd_len, cmd_limit>>
       /\ sock = "open" => (sock' = "open" \/ Count(ev', "close") > 0)
       /\ old_sock = "open" => (old_sock' = "open" \/ Count(ev', "close") > 0)]_vars

\* the bitrate assignments that commit() handed to _bitrate_ with their value
BitrateHanded == SelectSeq(handed, LAMBDA it : it.k = "bitrate")

C37_Original ==
  /\ (cmpc = "returned" /\ ~blocking) => queue = <<>>
  /\ (Running /\ ~blocking /\ ncommit >= 2 /\ assigned = <<>>) => cpc = "idle"

\* the changes that wait in the queue or were handed to their accessor
PendingOrHanded == Len(SelectSeq(queue, Applies)) + Len(handed)

\* C38 as stated: while commit(blocking=True) of Controller.py runs and other
\* threads assign cached properties, an assignment touches neither the
\* socket nor the command in progress, at most one frame is unanswered, and
\* no change leaves the queue except into the hands of its accessor
C38_Original ==
  [][(blocking /\ Running) =>
       /\ UsesProperty => NoFrameNoChange
       /\ unanswered' <= 1
       /\ PendingOrHanded' >= PendingOrHanded]_vars

\* C39 as stated: a command of hs602.py that enters _cmd with a fresh
\* count, as it does after a rollover, is not rolled over (again): it goes
\* on to write its frame
C39_Original ==
  (rev = hs602_py /\ cpc = "enter" /\ cmd_count = 0) => cmd_limit > 1

====
